---------------------------- MODULE Spec2Model ----------------------------
(***************************************************************************)
(* Model of src/workerd/api/queue.c++: the ack/retry ledger               *)
(* (QueueEventResult, mutated by QueueMessage::ack/retry and               *)
(* QueueEvent::ackAll/retryAll) and the delivery coordinator               *)
(* (startQueueEvent and QueueCustomEventImpl::run).                        *)
(***************************************************************************)
EXTENDS Integers, Sequences, FiniteSets

(***************************************************************************)
(* Bounds of the model.                                                    *)
(***************************************************************************)
\* Number of messages in the delivered batch (ids are 1..NumIds).
NumIds == 2
\* delaySeconds values range over 0..MaxDelay.
MaxDelay == 1
\* Largest number of user waitUntil() tasks pending at once.
MaxTasks == 1

Ids == 1..NumIds
Delays == 0..MaxDelay

(***************************************************************************)
(* kj::Maybe<T> / jsg::Optional<T>: the empty set is kj::none, {v} holds v.*)
(***************************************************************************)
None == {}
Some(v) == {v}
MaybeDelay == {None} \cup {Some(d) : d \in Delays}

\* jsg::Optional<QueueRetryOptions>: absent, or a struct whose delaySeconds
\* is itself optional.
RetryOptions == {None} \cup {Some([delaySeconds |-> ds]) : ds \in MaybeDelay}

\* The delay a call carries: KJ_IF_SOME(opts, options) KJ_IF_SOME(secs, opts.delaySeconds).
DelayOf(options) ==
  IF options = None THEN None
  ELSE (CHOOSE o \in options : TRUE).delaySeconds

(***************************************************************************)
(* QueueEventResult: the ledger of one delivery.                           *)
(***************************************************************************)
EmptyResult ==
  [ ackAll       |-> FALSE,
    retryBatch   |-> [retry |-> FALSE, delaySeconds |-> None],
    explicitAcks |-> {},
    retries      |-> << >> ]

\* kj::HashMap::upsert(key, value) with no update function: the value of an
\* existing entry is replaced by the given one, a missing entry is inserted.
Upsert(map, key, value) ==
  [k \in DOMAIN map \cup {key} |-> IF k = key THEN value ELSE map[k]]

\* Variant: the delay of the entry found (old) is kept when the call carries
\* none, as if the entry were found and updated instead of replaced.
RetryEntryKeepDelay(old, options) ==
  [delaySeconds |-> IF DelayOf(options) # None THEN DelayOf(options) ELSE old]

\* Variant: the delay of the call is added to the delay of the entry found.
RetryEntryAddsDelay(old, options) ==
  [delaySeconds |->
     IF DelayOf(options) = None \/ old = None THEN DelayOf(options)
     ELSE Some((CHOOSE v \in old : TRUE) + (CHOOSE v \in DelayOf(options) : TRUE))]

\* The entry retry() leaves for the id: upsert(id, {}) replaces the value of
\* an entry already there (old is its delay) by a default-constructed one,
\* and delaySeconds is then assigned only when the call carries a delay.
RetryEntry(old, options) ==
  [delaySeconds |-> DelayOf(options)]

\* Variant of retry() without the explicitAcks check.
QueueMessage_retry_NoAckCheck(r, id, options) ==
  IF r.ackAll THEN r
  ELSE [r EXCEPT !.retries = Upsert(r.retries, id, RetryEntry(None, options))]

\* QueueMessage::retry
QueueMessage_retry(r, id, options) ==
  IF r.ackAll THEN r
  ELSE IF id \in r.explicitAcks THEN r
  ELSE [r EXCEPT !.retries =
          Upsert(r.retries, id,
                 RetryEntry(IF id \in DOMAIN r.retries
                            THEN r.retries[id].delaySeconds ELSE None,
                            options))]

\* Variant of ack() without the retryAll() check.
QueueMessage_ack_NoBatchCheck(r, id) ==
  IF r.ackAll THEN r
  ELSE IF id \in DOMAIN r.retries THEN r
  ELSE [r EXCEPT !.explicitAcks = r.explicitAcks \cup {id}]

\* Variant of ack() without the retries check.
QueueMessage_ack_NoRetryCheck(r, id) ==
  IF r.ackAll THEN r
  ELSE IF r.retryBatch.retry THEN r
  ELSE [r EXCEPT !.explicitAcks = r.explicitAcks \cup {id}]

\* QueueMessage::ack
QueueMessage_ack(r, id) ==
  IF r.ackAll THEN r
  ELSE IF r.retryBatch.retry THEN r
  ELSE IF id \in DOMAIN r.retries THEN r
  ELSE [r EXCEPT !.explicitAcks = r.explicitAcks \cup {id}]

\* Variant of retryAll() without the ackAll check.
QueueEvent_retryAll_NoCheck(r, options) ==
  [r EXCEPT !.retryBatch =
     [retry |-> TRUE,
      delaySeconds |-> IF DelayOf(options) # None THEN DelayOf(options)
                       ELSE r.retryBatch.delaySeconds]]

\* QueueEvent::retryAll
QueueEvent_retryAll(r, options) ==
  IF r.ackAll THEN r
  ELSE [r EXCEPT !.retryBatch =
          [retry |-> TRUE,
           delaySeconds |-> IF DelayOf(options) # None THEN DelayOf(options)
                            ELSE r.retryBatch.delaySeconds]]

\* Variant: ackAll() also drops the retries recorded for single messages.
QueueEvent_ackAll_ClearsRetries(r) ==
  IF r.retryBatch.retry THEN r
  ELSE [r EXCEPT !.ackAll = TRUE, !.retries = << >>]

\* Variant of ackAll() without the retryAll check.
QueueEvent_ackAll_NoCheck(r) ==
  [r EXCEPT !.ackAll = TRUE]

\* QueueEvent::ackAll
QueueEvent_ackAll(r) ==
  IF r.retryBatch.retry THEN r
  ELSE [r EXCEPT !.ackAll = TRUE]


(***************************************************************************)
(* State.                                                                  *)
(***************************************************************************)
VARIABLES
  result,            \* QueueEventResult of the delivery (the ledger)
  lastCall,          \* history: the last traced ledger call and the ledger before it
  flag,              \* compatibility flag queueConsumerNoWaitForWaitUntil
  handlerKind,       \* what startQueueEvent finds to invoke
  pc,                \* position of the run() coroutine
  runProm,           \* the context.run(...) promise that runs startQueueEvent
  handler,           \* the user's queue() handler or "queue" event listener
  completionStatus,  \* QueueEvent::completionStatus
  pendingTasks,      \* user waitUntil() tasks still pending
  waitUntilStatus,   \* IoContext::waitUntilStatus()
  timedOut,          \* the wall-clock limit (limitScheduled) has elapsed
  aborted,           \* IoContext::onAbort() has fired
  limitsExceeded,    \* LimitEnforcer::getLimitsExceeded()
  winner,            \* branch of the exclusiveJoin race that resolved first
  local,             \* run()'s locals kept across the co_await of line 691
  reported,          \* outcomes co_returned by run(), in order
  finishCalls,       \* calls of incomingRequest->finishScheduled()
  drainCalls,        \* calls of incomingRequest->drain()
  diag               \* KJ_LOG(WARNING, ...) records of lines 685 and 697

coordVars ==
  << flag, handlerKind, pc, runProm, handler, completionStatus, pendingTasks,
     waitUntilStatus, timedOut, aborted, limitsExceeded, winner, local,
     reported, finishCalls, drainCalls, diag >>

vars == << result, lastCall, coordVars >>

HandlerKinds == {"exported", "noQueueFn", "listener", "noListener"}
Outcomes == {"OK", "EXCEPTION", "EXCEEDED_CPU"}

NoCall == [op |-> "none", id |-> 0, options |-> None, before |-> EmptyResult]
NoLocal == [finishResult |-> "", status |-> "", tasks |-> 0]

Init ==
  /\ result = EmptyResult
  /\ lastCall = NoCall
  /\ flag \in BOOLEAN
  /\ handlerKind \in HandlerKinds
  /\ pc = "init"
  /\ runProm = "pending"
  /\ handler = "idle"
  /\ completionStatus = "Incomplete"
  /\ pendingTasks = 0
  /\ waitUntilStatus = "OK"
  /\ timedOut = FALSE
  /\ aborted = FALSE
  /\ limitsExceeded = None
  /\ winner = "none"
  /\ local = NoLocal
  /\ reported = << >>
  /\ finishCalls = 0
  /\ drainCalls = 0
  /\ diag = << >>

(***************************************************************************)
(* Ledger calls made by the user's JavaScript.  The handler, and the       *)
(* waitUntil() tasks it registered, hold references to the messages and    *)
(* the event and may call into the ledger for as long as they run.         *)
(***************************************************************************)
JsRunning == handler = "running" \/ pendingTasks > 0

Ack(id) ==
  /\ JsRunning
  /\ result' = QueueMessage_ack(result, id)
  /\ UNCHANGED coordVars

Retry(id, options) ==
  /\ JsRunning
  /\ result' = QueueMessage_retry(result, id, options)
  /\ UNCHANGED coordVars

AckAll ==
  /\ JsRunning
  /\ result' = QueueEvent_ackAll(result)
  /\ UNCHANGED coordVars

RetryAll(options) ==
  /\ JsRunning
  /\ result' = QueueEvent_retryAll(result, options)
  /\ UNCHANGED coordVars

Traced(op, id, options) ==
  lastCall' = [op |-> op, id |-> id, options |-> options, before |-> result]

(***************************************************************************)
(* startQueueEvent and QueueCustomEventImpl::run.                          *)
(***************************************************************************)

\* Variant: the race is not joined against the timeout.
ExclusiveJoinNoTimeout(w, sig) ==
  IF w = "none" /\ sig # "timeout" THEN sig ELSE w

\* exclusiveJoin: the first branch to resolve fixes the result of the race
\* and the other branches are cancelled.
ExclusiveJoin(w, sig) == IF w = "none" THEN sig ELSE w

RaceWinner(sig) ==
  IF flag /\ pc = "race" THEN ExclusiveJoin(winner, sig) ELSE winner

\* Variant: an elapsed time limit classified as a failure of the handler.
OutcomeOfTimeoutIsException(w) ==
  CASE w = "completed" -> "OK"
    [] w = "rejected"  -> "EXCEPTION"
    [] w = "timeout"   -> "EXCEPTION"
    [] w = "abort"     -> "EXCEPTION"

\* Variant: an abort classified as finishScheduled()'s callers classify it.
OutcomeOfAbortIsExceeded(w) ==
  CASE w = "completed" -> "OK"
    [] w = "rejected"  -> "EXCEPTION"
    [] w = "timeout"   -> "EXCEEDED_CPU"
    [] w = "abort"     -> "EXCEEDED_CPU"

\* The EventOutcome each branch of the race returns.
OutcomeOf(w) ==
  CASE w = "completed" -> "OK"
    [] w = "rejected"  -> "EXCEPTION"
    [] w = "timeout"   -> "EXCEEDED_CPU"
    [] w = "abort"     -> "EXCEPTION"

\* Variant: the outcome of the race is returned as it is.
LimitOverrideSkipped(o) == o

\* KJ_IF_SOME(status, context.getLimitEnforcer().getLimitsExceeded()) outcome = status;
LimitOverride(o) ==
  IF limitsExceeded # None THEN CHOOSE s \in limitsExceeded : TRUE ELSE o

\* Variant: an aborted delivery classified as the race of the flagged path
\* classifies it.
FinishOutcomeAbortIsException(res) ==
  IF res = "COMPLETED" THEN waitUntilStatus
  ELSE IF res = "ABORTED" THEN "EXCEPTION" ELSE "EXCEEDED_CPU"

\* Variant: the result of finishScheduled() is not consulted.
FinishOutcomeIgnoresResult(res) ==
  IF res = "COMPLETED" THEN "EXCEEDED_CPU" ELSE "EXCEEDED_CPU"

\* completed ? context.waitUntilStatus() : EventOutcome::EXCEEDED_CPU
FinishOutcome(res) ==
  IF res = "COMPLETED" THEN waitUntilStatus ELSE "EXCEEDED_CPU"

\* Variant: the response of startQueueEvent is never marked as coming from a
\* service-worker listener.
IsServiceWorkerHandlerNever == FALSE

\* queueEventHolder->isServiceWorkerHandler, copied from startQueueEvent's
\* response once the context.run lambda has returned.
IsServiceWorkerHandler == handlerKind = "listener" /\ runProm = "resolved"

\* The continuations chained on the handler's promise (setCompletionStatus)
\* still run: always when the promise is a waitUntil task, and until the
\* race resolves (and cancels its losers) when it is raced.
Attached == ~flag \/ (pc = "race" /\ winner = "none")

\* Variant: neither runProm nor the handler's promise is put in the waitUntil
\* set.
WaitUntilEmptyTasksOnly == pendingTasks = 0

\* The waitUntil set of the IoContext is empty.  Without the flag it also
\* holds runProm (context.addWaitUntil) and the handler's promise
\* (event->waitUntil).
WaitUntilEmpty ==
  /\ pendingTasks = 0
  /\ ~flag => (runProm # "pending" /\ handler # "running")

\* The results IoContext_IncomingRequest::finishScheduled() can return now.
FinishScheduledResults ==
  {r \in {"COMPLETED", "TIMEOUT", "ABORTED"} :
     \/ r = "COMPLETED" /\ WaitUntilEmpty
     \/ r = "TIMEOUT" /\ timedOut
     \/ r = "ABORTED" /\ aborted}

\* The status string of lines 662-680.
DiagStatus ==
  IF runProm # "resolved" THEN "Empty" ELSE completionStatus

Report(o) == reported' = Append(reported, o)

\* run() up to its first co_await.
Run ==
  /\ pc = "init"
  /\ IF flag
     THEN pc' = "race" /\ UNCHANGED finishCalls
     ELSE pc' = "finish" /\ finishCalls' = finishCalls + 1
  /\ UNCHANGED << result, lastCall, flag, handlerKind, runProm, handler,
                  completionStatus, pendingTasks, waitUntilStatus, timedOut,
                  aborted, limitsExceeded, winner, local, reported,
                  drainCalls, diag >>

\* Variant: the event is dispatched without looking at the number of
\* listeners.
StartQueueEventNoListenerCount ==
  /\ pc \in {"race", "finish"}
  /\ runProm = "pending"
  /\ handler = "idle"
  /\ winner = "none"
  /\ CASE handlerKind = "exported" ->
            /\ handler' = "running"
            /\ runProm' = "resolved"
            /\ UNCHANGED << winner, waitUntilStatus >>
       [] handlerKind \in {"listener", "noListener"} ->
            /\ handler' = "running"
            /\ UNCHANGED << runProm, winner, waitUntilStatus >>
       [] OTHER ->
            /\ runProm' = "rejected"
            /\ winner' = RaceWinner("rejected")
            /\ waitUntilStatus' = IF flag THEN waitUntilStatus ELSE "EXCEPTION"
            /\ UNCHANGED handler
  /\ UNCHANGED << result, lastCall, flag, handlerKind, pc, completionStatus,
                  pendingTasks, timedOut, aborted, limitsExceeded, local,
                  reported, finishCalls, drainCalls, diag >>

\* The context.run lambda: startQueueEvent.
StartQueueEvent ==
  /\ pc \in {"race", "finish"}
  /\ runProm = "pending"
  /\ handler = "idle"
  /\ winner = "none"
  /\ CASE handlerKind = "exported" ->
            /\ handler' = "running"
            /\ runProm' = "resolved"
            /\ UNCHANGED << winner, waitUntilStatus >>
       [] handlerKind = "listener" ->
            /\ handler' = "running"
            /\ UNCHANGED << runProm, winner, waitUntilStatus >>
       [] OTHER ->
            /\ runProm' = "rejected"
            /\ winner' = RaceWinner("rejected")
            /\ waitUntilStatus' = IF flag THEN waitUntilStatus ELSE "EXCEPTION"
            /\ UNCHANGED handler
  /\ UNCHANGED << result, lastCall, flag, handlerKind, pc, completionStatus,
                  pendingTasks, timedOut, aborted, limitsExceeded, local,
                  reported, finishCalls, drainCalls, diag >>

\* Variant: the completion status is left as it is after the dispatch.
ListenerReturnStatusNotSet ==
  /\ handlerKind = "listener"
  /\ handler = "running"
  /\ handler' = "resolved"
  /\ runProm' = "resolved"
  /\ winner' = RaceWinner("completed")
  /\ UNCHANGED << result, lastCall, flag, handlerKind, pc, completionStatus,
                  pendingTasks, waitUntilStatus, timedOut, aborted,
                  limitsExceeded, local, reported, finishCalls, drainCalls,
                  diag >>

\* The listener returns from dispatchEventImpl; startQueueEvent returns.
ListenerReturn ==
  /\ handlerKind = "listener"
  /\ handler = "running"
  /\ handler' = "resolved"
  /\ completionStatus' = "CompletedSuccessfully"
  /\ runProm' = "resolved"
  /\ winner' = RaceWinner("completed")
  /\ UNCHANGED << result, lastCall, flag, handlerKind, pc, pendingTasks,
                  waitUntilStatus, timedOut, aborted, limitsExceeded, local,
                  reported, finishCalls, drainCalls, diag >>

\* The promise returned by the exported queue() handler resolves.
HandlerResolve ==
  /\ handlerKind = "exported"
  /\ handler = "running"
  /\ handler' = "resolved"
  /\ completionStatus' =
       IF Attached THEN "CompletedSuccessfully" ELSE completionStatus
  /\ winner' = RaceWinner("completed")
  /\ UNCHANGED << result, lastCall, flag, handlerKind, pc, runProm,
                  pendingTasks, waitUntilStatus, timedOut, aborted,
                  limitsExceeded, local, reported, finishCalls, drainCalls,
                  diag >>

\* The promise returned by the exported queue() handler rejects.
HandlerReject ==
  /\ handlerKind = "exported"
  /\ handler = "running"
  /\ handler' = "rejected"
  /\ completionStatus' =
       IF Attached THEN "CompletedWithError" ELSE completionStatus
  /\ winner' = RaceWinner("rejected")
  /\ waitUntilStatus' = IF flag THEN waitUntilStatus ELSE "EXCEPTION"
  /\ UNCHANGED << result, lastCall, flag, handlerKind, pc, runProm,
                  pendingTasks, timedOut, aborted, limitsExceeded, local,
                  reported, finishCalls, drainCalls, diag >>

\* The user's JavaScript registers a background task: event.waitUntil(p).
WaitUntil ==
  /\ JsRunning
  /\ pendingTasks < MaxTasks
  /\ pendingTasks' = pendingTasks + 1
  /\ UNCHANGED << result, lastCall, flag, handlerKind, pc, runProm, handler,
                  completionStatus, waitUntilStatus, timedOut, aborted,
                  limitsExceeded, winner, local, reported, finishCalls,
                  drainCalls, diag >>

\* A background task finishes, successfully or not.
TaskDone(ok) ==
  /\ pendingTasks > 0
  /\ pendingTasks' = pendingTasks - 1
  /\ waitUntilStatus' = IF ok THEN waitUntilStatus ELSE "EXCEPTION"
  /\ UNCHANGED << result, lastCall, flag, handlerKind, pc, runProm, handler,
                  completionStatus, timedOut, aborted, limitsExceeded, winner,
                  local, reported, finishCalls, drainCalls, diag >>

\* The wall-clock limit of the delivery elapses.
Timeout ==
  /\ pc \notin {"init", "done"}
  /\ ~timedOut
  /\ timedOut' = TRUE
  /\ winner' = RaceWinner("timeout")
  /\ UNCHANGED << result, lastCall, flag, handlerKind, pc, runProm, handler,
                  completionStatus, pendingTasks, waitUntilStatus, aborted,
                  limitsExceeded, local, reported, finishCalls, drainCalls,
                  diag >>

\* The surrounding IoContext is aborted, before or after run() has returned.
Abort ==
  /\ pc # "init"
  /\ ~aborted
  /\ aborted' = TRUE
  /\ winner' = RaceWinner("abort")
  /\ UNCHANGED << result, lastCall, flag, handlerKind, pc, runProm, handler,
                  completionStatus, pendingTasks, waitUntilStatus, timedOut,
                  limitsExceeded, local, reported, finishCalls, drainCalls,
                  diag >>

\* The limit enforcer records that the user's code exceeded a limit.
ExceedLimit ==
  /\ JsRunning
  /\ pc # "done"
  /\ limitsExceeded = None
  /\ limitsExceeded' = Some("EXCEEDED_CPU")
  /\ UNCHANGED << result, lastCall, flag, handlerKind, pc, runProm, handler,
                  completionStatus, pendingTasks, waitUntilStatus, timedOut,
                  aborted, winner, local, reported, finishCalls, drainCalls,
                  diag >>

\* Variant: drain() is called on every path after the race, also when
\* finishScheduled() is.
AfterRaceAlwaysDrains ==
  /\ pc = "race"
  /\ winner # "none"
  /\ drainCalls' = drainCalls + 1
  /\ IF OutcomeOf(winner) = "OK" /\ IsServiceWorkerHandler
     THEN /\ pc' = "swFinish"
          /\ finishCalls' = finishCalls + 1
          /\ UNCHANGED reported
     ELSE /\ Report(LimitOverride(OutcomeOf(winner)))
          /\ pc' = "done"
          /\ UNCHANGED finishCalls
  /\ UNCHANGED << result, lastCall, flag, handlerKind, runProm, handler,
                  completionStatus, pendingTasks, waitUntilStatus, timedOut,
                  aborted, limitsExceeded, winner, local, diag >>

\* run() resumes after the race (lines 623-646).
AfterRace ==
  /\ pc = "race"
  /\ winner # "none"
  /\ IF OutcomeOf(winner) = "OK" /\ IsServiceWorkerHandler
     THEN /\ pc' = "swFinish"
          /\ finishCalls' = finishCalls + 1
          /\ UNCHANGED << reported, drainCalls >>
     ELSE /\ drainCalls' = drainCalls + 1
          /\ Report(LimitOverride(OutcomeOf(winner)))
          /\ pc' = "done"
          /\ UNCHANGED finishCalls
  /\ UNCHANGED << result, lastCall, flag, handlerKind, runProm, handler,
                  completionStatus, pendingTasks, waitUntilStatus, timedOut,
                  aborted, limitsExceeded, winner, local, diag >>

\* finishScheduled() returns on the service-worker path (lines 630-646).
SwFinished ==
  /\ pc = "swFinish"
  /\ \E res \in FinishScheduledResults :
       /\ local' = [local EXCEPT !.finishResult = res]
       /\ Report(LimitOverride(FinishOutcome(res)))
  /\ pc' = "done"
  /\ UNCHANGED << result, lastCall, flag, handlerKind, runProm, handler,
                  completionStatus, pendingTasks, waitUntilStatus, timedOut,
                  aborted, limitsExceeded, winner, finishCalls, drainCalls,
                  diag >>

\* finishScheduled() returns without the flag (lines 654-703).
LegacyFinished ==
  /\ pc = "finish"
  /\ \E res \in FinishScheduledResults :
       CASE res = "COMPLETED" ->
              /\ local' = [local EXCEPT !.finishResult = res]
              /\ Report(FinishOutcome(res))
              /\ pc' = "done"
              /\ UNCHANGED diag
         [] res = "TIMEOUT" ->
              /\ local' = [finishResult |-> res, status |-> DiagStatus,
                           tasks |-> pendingTasks]
              /\ diag' = Append(diag, [kind |-> "timeout",
                                       status |-> DiagStatus,
                                       tasks |-> pendingTasks])
              /\ Report(FinishOutcome(res))
              /\ pc' = "done"
         [] res = "ABORTED" ->
              /\ local' = [finishResult |-> res, status |-> DiagStatus,
                           tasks |-> pendingTasks]
              /\ pc' = "abortWait"
              /\ UNCHANGED << reported, diag >>
  /\ UNCHANGED << result, lastCall, flag, handlerKind, runProm, handler,
                  completionStatus, pendingTasks, waitUntilStatus, timedOut,
                  aborted, limitsExceeded, winner, finishCalls, drainCalls >>

\* The co_await of line 691 returns; the abort is logged and reported.
LegacyAbortLogged ==
  /\ pc = "abortWait"
  /\ diag' = Append(diag, [kind |-> "aborted", status |-> local.status,
                           tasks |-> local.tasks])
  /\ Report(FinishOutcome(local.finishResult))
  /\ pc' = "done"
  /\ UNCHANGED << result, lastCall, flag, handlerKind, runProm, handler,
                  completionStatus, pendingTasks, waitUntilStatus, timedOut,
                  aborted, limitsExceeded, winner, local, finishCalls,
                  drainCalls >>

(***************************************************************************)
(* Specifications.                                                         *)
(***************************************************************************)
\* The steps of the coordinator, of the handler's promise and of the
\* environment; none of them touches the ledger.
CoordNext ==
  \/ Run
  \/ StartQueueEvent
  \/ ListenerReturn
  \/ HandlerResolve
  \/ HandlerReject
  \/ WaitUntil
  \/ \E ok \in BOOLEAN : TaskDone(ok)
  \/ Timeout
  \/ Abort
  \/ ExceedLimit
  \/ AfterRace
  \/ SwFinished
  \/ LegacyFinished
  \/ LegacyAbortLogged

Next ==
  \/ CoordNext
  \/ \E id \in Ids : Ack(id) /\ UNCHANGED lastCall
  \/ \E id \in Ids, options \in RetryOptions :
       Retry(id, options) /\ UNCHANGED lastCall
  \/ AckAll /\ UNCHANGED lastCall
  \/ \E options \in RetryOptions : RetryAll(options) /\ UNCHANGED lastCall

Spec == Init /\ [][Next]_vars

\* The coordinator's steps are taken once they can be, and the wall-clock
\* limit of a started delivery elapses.
CoordSpec == Init /\ [][CoordNext]_vars

FairSpec ==
  /\ CoordSpec
  /\ WF_vars(Timeout)
  /\ WF_vars(AfterRace)
  /\ WF_vars(SwFinished)
  /\ WF_vars(LegacyFinished)
  /\ WF_vars(LegacyAbortLogged)

\* The ledger on its own: the exported handler has been invoked and is
\* running, and makes any sequence of ledger calls, each of them traced.
\* The coordinator resumes when what it awaits is ready; nothing is assumed
\* about the time limit ever elapsing.
NoLimitFairSpec ==
  /\ CoordSpec
  /\ WF_vars(AfterRace)
  /\ WF_vars(SwFinished)
  /\ WF_vars(LegacyFinished)
  /\ WF_vars(LegacyAbortLogged)

LedgerInit ==
  /\ result = EmptyResult
  /\ lastCall = NoCall
  /\ flag \in BOOLEAN
  /\ handlerKind = "exported"
  /\ pc = IF flag THEN "race" ELSE "finish"
  /\ runProm = "resolved"
  /\ handler = "running"
  /\ completionStatus = "Incomplete"
  /\ pendingTasks = 0
  /\ waitUntilStatus = "OK"
  /\ timedOut = FALSE
  /\ aborted = FALSE
  /\ limitsExceeded = None
  /\ winner = "none"
  /\ local = NoLocal
  /\ reported = << >>
  /\ finishCalls = IF flag THEN 0 ELSE 1
  /\ drainCalls = 0
  /\ diag = << >>

LedgerNext ==
  \/ \E id \in Ids : Ack(id) /\ Traced("ack", id, None)
  \/ \E id \in Ids, options \in RetryOptions :
       Retry(id, options) /\ Traced("retry", id, options)
  \/ AckAll /\ Traced("ackAll", 0, None)
  \/ \E options \in RetryOptions :
       RetryAll(options) /\ Traced("retryAll", 0, options)

LedgerSpec == LedgerInit /\ [][LedgerNext]_vars

\* A whole delivery: the coordinator, and the handler's calls on the ledger
\* while its code runs.  The calls carry no options here (the delays are
\* covered by LedgerSpec); the history of calls is not kept.
DeliveryNext ==
  \/ CoordNext
  \/ \E id \in Ids : Ack(id) /\ UNCHANGED lastCall
  \/ \E id \in Ids : Retry(id, None) /\ UNCHANGED lastCall
  \/ AckAll /\ UNCHANGED lastCall
  \/ RetryAll(None) /\ UNCHANGED lastCall

DeliverySpec == Init /\ [][DeliveryNext]_vars

(***************************************************************************)
(* sendRpc: the caller's side of a delivery made through an RPC.  result   *)
(* is the caller's own QueueEventResult; run() is never called on it.      *)
(***************************************************************************)
\* The delays a record on the wire carries: absent, or a number of seconds.
RpcDelays == {None, Some(MaxDelay)}

\* respResult.getRetryMessages(): entries (msgId, optional delaySeconds), one
\* for each key of the callee's retries map.
WireRetryMessages ==
  UNION {{{[msgId |-> id, delaySeconds |-> f[id]] : id \in S} :
            f \in [S -> RpcDelays]} : S \in SUBSET Ids}

\* The results a response of queueRequest() can carry.
Responses ==
  [ackAll : BOOLEAN,
   retryBatch : [retry : BOOLEAN, delaySeconds : RpcDelays],
   explicitAcks : SUBSET Ids,
   retryMessages : WireRetryMessages]

\* The ledger a response describes, field by field.
WireLedger(resp) ==
  [ackAll |-> resp.ackAll,
   retryBatch |-> [retry |-> resp.retryBatch.retry,
                   delaySeconds |-> resp.retryBatch.delaySeconds],
   explicitAcks |-> resp.explicitAcks,
   retries |-> [id \in {m.msgId : m \in resp.retryMessages} |->
                  [delaySeconds |->
                     (CHOOSE m \in resp.retryMessages : m.msgId = id).delaySeconds]]]

\* The loop of lines 746-751: upsert(msgId, {}), then the delay if
\* retry.isDelaySeconds().
RECURSIVE InsertRetries(_, _)
InsertRetries(map, msgs) ==
  IF msgs = {} THEN map
  ELSE LET retry == CHOOSE m \in msgs : TRUE
           entry == IF retry.delaySeconds # None
                    THEN [delaySeconds |-> retry.delaySeconds]
                    ELSE [delaySeconds |-> None]
       IN  InsertRetries(Upsert(map, retry.msgId, entry), msgs \ {retry})

\* The continuation of req.send() (lines 732-756) applied to the caller's
\* ledger r.
sendRpc_then(r, resp) ==
  [ackAll |-> resp.ackAll,
   retryBatch |->
     [retry |-> resp.retryBatch.retry,
      delaySeconds |-> IF resp.retryBatch.delaySeconds # None
                       THEN resp.retryBatch.delaySeconds
                       ELSE r.retryBatch.delaySeconds],
   explicitAcks |-> {} \cup {msgId : msgId \in resp.explicitAcks},
   retries |-> InsertRetries(<< >>, resp.retryMessages)]

\* A response of the callee arrives and is applied.  The outcome it carries
\* is returned to the caller of sendRpc and kept nowhere.
SendRpc(resp) ==
  /\ pc = "init"
  /\ result' = sendRpc_then(result, resp)
  /\ lastCall' = [op |-> "sendRpc", resp |-> resp]
  /\ UNCHANGED coordVars

RpcInit == Init /\ flag /\ handlerKind = "exported"

RpcNext == \E resp \in Responses : SendRpc(resp)

RpcSpec == RpcInit /\ [][RpcNext]_vars

(***************************************************************************)
(* The producer: WorkerQueue::send and WorkerQueue::sendBatch, up to the   *)
(* encoding of the messages.  A string is a sequence of characters.        *)
(***************************************************************************)
\* IncomingQueueMessage::ContentType
TEXT == << "t", "e", "x", "t" >>
BYTES == << "b", "y", "t", "e", "s" >>
JSON == << "j", "s", "o", "n" >>
V8 == << "v", "8" >>

\* The letters of the tags, in lower and in upper case.
LowerLetters == << "b", "e", "j", "n", "o", "s", "t", "v", "x", "y" >>
UpperLetters == << "B", "E", "J", "N", "O", "S", "T", "V", "X", "Y" >>

\* toLower on one character: an upper-case letter becomes its lower-case
\* letter, any other character is kept.
toLowerChar(c) ==
  IF \E i \in DOMAIN UpperLetters : UpperLetters[i] = c
  THEN LowerLetters[CHOOSE i \in DOMAIN UpperLetters : UpperLetters[i] = c]
  ELSE c

toLower(str) == [i \in DOMAIN str |-> toLowerChar(str[i])]

\* The upper-case form of a lower-case letter; other characters are kept.
UpperChar(c) ==
  IF \E i \in DOMAIN LowerLetters : LowerLetters[i] = c
  THEN UpperLetters[CHOOSE i \in DOMAIN LowerLetters : LowerLetters[i] = c]
  ELSE c

\* Every spelling of a tag: any of its letters in upper case.
Spellings(tag) ==
  {[i \in DOMAIN tag |-> IF i \in U THEN UpperChar(tag[i]) ELSE tag[i]] :
     U \in SUBSET DOMAIN tag}

RecognizedSpellings ==
  Spellings(TEXT) \cup Spellings(BYTES) \cup Spellings(JSON) \cup Spellings(V8)

\* Strings that spell no tag.
OtherStrings ==
  { << >>,
    << "x", "m", "l" >>,
    << "j", "s", "o" >>,
    << "j", "s", "o", "n", " " >>,
    << "t", "e", "x", "t", "s" >>,
    << "V", "9" >> }

ContentTypeStrings == RecognizedSpellings \cup OtherStrings

\* The kinds of JavaScript value a message body can be.
Bodies == {"undefined", "string", "ArrayBufferView", "object"}

\* JSG_REQUIRE / JSG_FAIL_REQUIRE throwing a TypeError.
Throw(message) == [threw |-> TRUE, error |-> message]

Return(v) == [threw |-> FALSE, value |-> v]

validateContentType(contentType) ==
  LET lowerCase == toLower(contentType)
  IN  IF lowerCase = TEXT THEN Return(TEXT)
      ELSE IF lowerCase = BYTES THEN Return(BYTES)
      ELSE IF lowerCase = JSON THEN Return(JSON)
      ELSE IF lowerCase = V8 THEN Return(V8)
      ELSE Throw("Unsupported queue message content type")

\* The encoding serializeV8 produces.
serializeV8(body) == Return("v8")

\* serialize: the tag is compared as it is given.
serialize(body, contentType) ==
  IF contentType = TEXT
  THEN IF body = "string" THEN Return("text")
       ELSE Throw("Content Type text requires a value of type string")
  ELSE IF contentType = BYTES
  THEN IF body = "ArrayBufferView" THEN Return("bytes")
       ELSE Throw("Content Type bytes requires a value of type ArrayBufferView")
  ELSE IF contentType = JSON THEN Return("json")
  ELSE IF contentType = V8 THEN serializeV8(body)
  ELSE Throw("Unsupported queue message content type")

\* What is sent for one message: the tag it is sent under (X-Msg-Fmt, or the
\* contentType of the batch entry), if any, and the encoding of its body.
Encoded(tag, serialized) ==
  IF serialized.threw THEN serialized
  ELSE Return([contentType |-> tag, encoding |-> serialized.value])

\* WorkerQueue::send up to the request: body, options.contentType and the
\* queuesJsonMessages feature flag.
WorkerQueue_send(body, contentType, queuesJsonMessages) ==
  IF body = "undefined" THEN Throw("Message body cannot be undefined")
  ELSE IF contentType # None
  THEN LET type == CHOOSE t \in contentType : TRUE
           validatedType == validateContentType(type)
       IN  IF validatedType.threw THEN validatedType
           ELSE Encoded(Some(validatedType.value),
                        serialize(body, validatedType.value))
  ELSE IF queuesJsonMessages
  THEN Encoded(Some(JSON), serialize(body, JSON))
  ELSE Encoded(None, serializeV8(body))

\* Variant: the body of a message is not checked for undefined.
sendBatch_itemNoUndefinedCheck(message, queuesJsonMessages) ==
  IF message.contentType # None
  THEN LET contentType == CHOOSE t \in message.contentType : TRUE
           validatedType == validateContentType(contentType)
       IN  IF validatedType.threw THEN validatedType
           ELSE Encoded(Some(validatedType.value),
                        serialize(message.body, contentType))
  ELSE IF queuesJsonMessages
  THEN Encoded(Some(JSON), serialize(message.body, JSON))
  ELSE Encoded(None, serializeV8(message.body))

\* The body of the loop of WorkerQueue::sendBatch for one message.
sendBatch_item(message, queuesJsonMessages) ==
  IF message.body = "undefined" THEN Throw("Message body cannot be undefined")
  ELSE IF message.contentType # None
  THEN LET contentType == CHOOSE t \in message.contentType : TRUE
           validatedType == validateContentType(contentType)
       IN  IF validatedType.threw THEN validatedType
           ELSE Encoded(Some(validatedType.value),
                        serialize(message.body, contentType))
  ELSE IF queuesJsonMessages
  THEN Encoded(Some(JSON), serialize(message.body, JSON))
  ELSE Encoded(None, serializeV8(message.body))

\* WorkerQueue::sendBatch up to the request: the first message that throws
\* ends the call, otherwise every message is encoded.
WorkerQueue_sendBatch(batch, queuesJsonMessages) ==
  IF Len(batch) = 0 THEN Throw("sendBatch() requires at least one message")
  ELSE LET items == [i \in DOMAIN batch |->
                       sendBatch_item(batch[i], queuesJsonMessages)]
           failed == {i \in DOMAIN batch : items[i].threw}
       IN  IF failed # {}
           THEN items[CHOOSE i \in failed : \A j \in failed : i <= j]
           ELSE Return([i \in DOMAIN batch |-> items[i].value])

\* The messages and batches given to the producer.
Messages == [body : Bodies, contentType : {None} \cup {Some(t) : t \in ContentTypeStrings}]

Batches == {<< >>} \cup {<< m >> : m \in Messages}

Send(message, queuesJsonMessages) ==
  /\ lastCall' = [op |-> "send", batch |-> << message >>,
                  queuesJsonMessages |-> queuesJsonMessages,
                  ret |-> WorkerQueue_send(message.body, message.contentType,
                                           queuesJsonMessages)]
  /\ UNCHANGED << result, coordVars >>

SendBatch(batch, queuesJsonMessages) ==
  /\ lastCall' = [op |-> "sendBatch", batch |-> batch,
                  queuesJsonMessages |-> queuesJsonMessages,
                  ret |-> WorkerQueue_sendBatch(batch, queuesJsonMessages)]
  /\ UNCHANGED << result, coordVars >>

ProducerInit == Init /\ flag /\ handlerKind = "exported"

ProducerNext ==
  \/ \E message \in Messages, queuesJsonMessages \in BOOLEAN :
       Send(message, queuesJsonMessages)
  \/ \E batch \in Batches, queuesJsonMessages \in BOOLEAN :
       SendBatch(batch, queuesJsonMessages)

ProducerSpec == ProducerInit /\ [][ProducerNext]_vars

(***************************************************************************)
(* The request sendBatch builds.  The serialized body of a message is      *)
(* given by its size in bytes (message.size); its bytes are zero.          *)
(***************************************************************************)
Digits == << "0", "1", "2", "3", "4", "5", "6", "7", "8", "9" >>

\* kj::str of a non-negative number.
RECURSIVE strNat(_)
strNat(n) ==
  IF n < 10 THEN << Digits[n + 1] >>
  ELSE strNat(n \div 10) \o << Digits[(n % 10) + 1] >>

\* kj::str of an int.
kj_str(n) == IF n < 0 THEN << "-" >> \o strNat(-n) ELSE strNat(n)

\* kj::encodeBase64 of size zero bytes: four characters for every three
\* bytes, the last group padded with '='.
encodeBase64(size) ==
  [i \in 1..((size \div 3) * 4) |-> "A"] \o
  (CASE size % 3 = 0 -> << >>
     [] size % 3 = 1 -> << "A", "A", "=", "=" >>
     [] size % 3 = 2 -> << "A", "A", "A", "=" >>)

\* The string literals of lines 272-297, character by character.
LitMessages ==
  << "{", "\"", "m", "e", "s", "s", "a", "g", "e", "s", "\"", ":", "[" >>
LitBody == << "{", "\"", "b", "o", "d", "y", "\"", ":", "\"" >>
LitContentType ==
  << ",", "\"", "c", "o", "n", "t", "e", "n", "t", "T", "y", "p", "e", "\"",
     ":", "\"" >>
LitDelaySecs ==
  << ",", "\"", "d", "e", "l", "a", "y", "S", "e", "c", "s", "\"", ":", " " >>
LitEnd == << "]", "}" >>

\* The terminating '\0' added to the body.
NUL == "NUL"

\* totalSize after the loop of lines 241-264 over the first n messages.
RECURSIVE totalSize(_, _)
totalSize(serializedBodies, n) ==
  IF n = 0 THEN 0
  ELSE totalSize(serializedBodies, n - 1) + serializedBodies[n].size

\* largestMessage after the loop of lines 241-264 over the first n messages.
RECURSIVE largestMessage(_, _)
largestMessage(serializedBodies, n) ==
  IF n = 0 THEN 0
  ELSE LET m == largestMessage(serializedBodies, n - 1)
       IN  IF serializedBodies[n].size > m THEN serializedBodies[n].size ELSE m

\* Variant: half the allowance for each message.
estimatedSizeSmallAllowance(total, messageCount) ==
  ((total + 2) \div 3) * 4 + messageCount * 32 + 32

\* auto estimatedSize = (totalSize + 2) / 3 * 4 + messageCount * 64 + 32;
estimatedSize(total, messageCount) ==
  ((total + 2) \div 3) * 4 + messageCount * 64 + 32

\* Variant: the loop takes the messages from the last to the first.
bodyOfMessageBackwards(serializedBodies, i) ==
  LET j == Len(serializedBodies) + 1 - i
  IN  LitBody \o encodeBase64(serializedBodies[j].size) \o << "\"" >> \o
      (IF serializedBodies[j].contentType # None
       THEN LitContentType \o (CHOOSE t \in serializedBodies[j].contentType : TRUE)
              \o << "\"" >>
       ELSE << >>) \o
      (IF serializedBodies[j].delaySeconds # None
       THEN LitDelaySecs \o kj_str(CHOOSE d \in serializedBodies[j].delaySeconds : TRUE)
       ELSE << >>) \o
      << "}" >> \o
      (IF i < Len(serializedBodies) THEN << "," >> ELSE << >>)

\* What the loop of lines 273-296 adds for message i.
bodyOfMessage(serializedBodies, i) ==
  LitBody \o encodeBase64(serializedBodies[i].size) \o << "\"" >> \o
  (IF serializedBodies[i].contentType # None
   THEN LitContentType \o (CHOOSE t \in serializedBodies[i].contentType : TRUE)
          \o << "\"" >>
   ELSE << >>) \o
  (IF serializedBodies[i].delaySeconds # None
   THEN LitDelaySecs \o kj_str(CHOOSE d \in serializedBodies[i].delaySeconds : TRUE)
   ELSE << >>) \o
  << "}" >> \o
  (IF i < Len(serializedBodies) THEN << "," >> ELSE << >>)

RECURSIVE bodyOfMessages(_, _)
bodyOfMessages(serializedBodies, n) ==
  IF n = 0 THEN << >>
  ELSE bodyOfMessages(serializedBodies, n - 1) \o bodyOfMessage(serializedBodies, n)

\* bodyBuilder when the body is released (lines 271-299).
bodyBuilder(serializedBodies) ==
  LitMessages \o bodyOfMessages(serializedBodies, Len(serializedBodies))
    \o LitEnd \o << NUL >>

\* The request of sendBatch (lines 265-323) for a batch whose messages were
\* encoded as items; options.delaySeconds is the delay given for the batch.
sendBatch_request(batch, items, options) ==
  LET messageCount == Len(batch)
      serializedBodies ==
        [i \in DOMAIN batch |->
           [size |-> batch[i].size,
            contentType |-> items[i].contentType,
            delaySeconds |-> batch[i].delaySeconds]]
      total == totalSize(serializedBodies, messageCount)
      body == bodyBuilder(serializedBodies)
  IN  [url |-> "https://fake-host/batch",
       headers |->
         [count |-> kj_str(messageCount),
          bytes |-> kj_str(total),
          largest |-> kj_str(largestMessage(serializedBodies, messageCount)),
          contentType |-> "application/json",
          delay |-> IF options.delaySeconds # None
                    THEN Some(kj_str(CHOOSE d \in options.delaySeconds : TRUE))
                    ELSE None],
       body |-> SubSeq(body, 1, Len(body) - 1),
       expectedBodySize |-> Len(body) - 1,
       bodyBuilderSize |-> Len(body),
       estimatedSize |-> estimatedSize(total, messageCount)]

\* WorkerQueue::sendBatch up to its return: it throws, or the request is
\* issued.
sendBatch_call(batch, options, queuesJsonMessages) ==
  LET encoded == WorkerQueue_sendBatch(batch, queuesJsonMessages)
  IN  IF encoded.threw THEN encoded
      ELSE Return(sendBatch_request(batch, encoded.value, options))

\* The request of send (lines 179-212) for a message encoded as encoded: the
\* contentType and delaySeconds of the message are those of its SendOptions.
send_request(message, encoded) ==
  [url |-> "https://fake-host/message",
   headers |->
     [contentType |-> "application/octet-stream",
      format |-> encoded.contentType,
      delay |-> IF message.delaySeconds # None
                THEN Some(kj_str(CHOOSE d \in message.delaySeconds : TRUE))
                ELSE None],
   expectedBodySize |-> message.size]

\* WorkerQueue::send up to its return: it throws, or the request is issued.
send_call(message, queuesJsonMessages) ==
  LET encoded == WorkerQueue_send(message.body, message.contentType,
                                  queuesJsonMessages)
  IN  IF encoded.threw THEN encoded
      ELSE Return(send_request(message, encoded.value))

\* The call after send() or sendBatch() returned or threw ret: a call that
\* threw has made no request and returned no promise; otherwise the request
\* was made with client->request and the coroutine writing its body has
\* started.
Called(call, ret) ==
  [op |-> call.op,
   batch |-> call.batch,
   options |-> call.options,
   queuesJsonMessages |-> call.queuesJsonMessages,
   phase |-> IF ret.threw THEN "threw" ELSE "writing",
   ret |-> ret,
   requests |-> IF ret.threw THEN << >> ELSE << ret.value >>,
   written |-> FALSE,
   response |-> None,
   bodyRead |-> FALSE,
   error |-> None]

\* send() is called with the message of lastCall.
SendCall ==
  /\ lastCall.op = "send"
  /\ lastCall.phase = "start"
  /\ lastCall' = Called(lastCall, send_call(lastCall.batch[1],
                                            lastCall.queuesJsonMessages))
  /\ UNCHANGED << result, coordVars >>

\* sendBatch() is called with the batch and options of lastCall.
SendBatchCall ==
  /\ lastCall.op = "sendBatch"
  /\ lastCall.phase = "start"
  /\ lastCall' = Called(lastCall, sendBatch_call(lastCall.batch, lastCall.options,
                                                 lastCall.queuesJsonMessages))
  /\ UNCHANGED << result, coordVars >>

\* co_await req.body->write(...) completes (lines 216 and 328).
BodyWritten ==
  /\ lastCall.phase = "writing"
  /\ lastCall' = [lastCall EXCEPT !.phase = "awaitingResponse", !.written = TRUE]
  /\ UNCHANGED << result, coordVars >>

\* Variant: every status below 300 is taken as success.
checkResponseAny2xx(op, response) ==
  IF response.statusCode < 300 THEN Return("readingBody")
  ELSE Throw(<< IF op = "send" THEN "Queue send failed: "
                 ELSE "Queue sendBatch failed: ",
                response.statusText >>)

\* JSG_REQUIRE(response.statusCode == 200, Error, kj::str("Queue send failed: ",
\* response.statusText)) of handleSend, and the same of handleWrite with
\* "Queue sendBatch failed: ".
checkResponse(op, response) ==
  IF response.statusCode = 200 THEN Return("readingBody")
  ELSE Throw(<< IF op = "send" THEN "Queue send failed: "
                 ELSE "Queue sendBatch failed: ",
                response.statusText >>)

\* co_await req.response completes with the broker's response, and the
\* status is checked (lines 217-220 and 329-332).
Responded(response) ==
  /\ lastCall.phase = "awaitingResponse"
  /\ LET checked == checkResponse(lastCall.op, response)
     IN  lastCall' =
           [lastCall EXCEPT
              !.response = Some(response),
              !.phase = IF checked.threw THEN "rejected" ELSE checked.value,
              !.error = IF checked.threw THEN Some(checked.error) ELSE None]
  /\ UNCHANGED << result, coordVars >>

\* co_await response.body->readAllBytes().ignoreResult() completes and the
\* coroutine returns (lines 223 and 335).
BodyDiscarded ==
  /\ lastCall.phase = "readingBody"
  /\ lastCall' = [lastCall EXCEPT !.phase = "fulfilled", !.bodyRead = TRUE]
  /\ UNCHANGED << result, coordVars >>

\* One of the awaited promises of the coroutine rejects (the connection to
\* the broker is lost): the exception leaves the coroutine.
Disconnected ==
  /\ lastCall.phase \in {"writing", "awaitingResponse", "readingBody"}
  /\ lastCall' = [lastCall EXCEPT !.phase = "rejected",
                                  !.error = Some(<< "disconnected" >>)]
  /\ UNCHANGED << result, coordVars >>

\* Reading the body back as the JSON text it is (line 301 parses it with
\* jsg::JsValue::fromJson): the helpers on character sequences.
startsWith(s, prefix) ==
  Len(s) >= Len(prefix) /\ SubSeq(s, 1, Len(prefix)) = prefix

drop(s, n) == SubSeq(s, n + 1, Len(s))

\* The index of the first c in s, 0 when there is none.
indexOf(s, c) ==
  IF \E i \in 1..Len(s) : s[i] = c
  THEN CHOOSE i \in 1..Len(s) : s[i] = c /\ \A j \in 1..(i - 1) : s[j] # c
  ELSE 0

\* The number a string of decimal digits denotes.
RECURSIVE parseNat(_)
parseNat(s) ==
  IF s = << >> THEN 0
  ELSE parseNat(SubSeq(s, 1, Len(s) - 1)) * 10 +
       (CHOOSE d \in 0..9 : Digits[d + 1] = s[Len(s)])

isNumber(s) ==
  LET digits == IF startsWith(s, << "-" >>) THEN drop(s, 1) ELSE s
  IN  digits # << >> /\ \A i \in 1..Len(digits) : \E d \in 1..10 : Digits[d] = digits[i]

parseInt(s) ==
  IF startsWith(s, << "-" >>) THEN 0 - parseNat(drop(s, 1)) ELSE parseNat(s)

\* The number of bytes a base64 string decodes to.
decodeBase64Size(chars) ==
  (Len(chars) \div 4) * 3 - Cardinality({i \in 1..Len(chars) : chars[i] = "="})

ParseFailed == [ok |-> FALSE, messages |-> << >>, rest |-> << >>]

\* One object of the "messages" array at the front of s: its body decoded
\* to a size, its contentType and delaySecs members when present, and what
\* follows the object.
fromJson_message(s) ==
  LET s1 == drop(s, Len(LitBody))
      q1 == indexOf(s1, "\"")
      s2 == drop(s1, q1)
      hasType == startsWith(s2, LitContentType)
      s3 == drop(s2, Len(LitContentType))
      q2 == indexOf(s3, "\"")
      s4 == IF hasType THEN drop(s3, q2) ELSE s2
      hasDelay == startsWith(s4, LitDelaySecs)
      s5 == drop(s4, Len(LitDelaySecs))
      q3 == indexOf(s5, "}")
      s6 == IF hasDelay THEN drop(s5, q3 - 1) ELSE s4
  IN  IF \/ ~startsWith(s, LitBody)
         \/ q1 = 0
         \/ (q1 - 1) % 4 # 0
         \/ hasType /\ q2 = 0
         \/ hasDelay /\ (q3 = 0 \/ ~isNumber(SubSeq(s5, 1, q3 - 1)))
         \/ ~startsWith(s6, << "}" >>)
      THEN ParseFailed
      ELSE [ok |-> TRUE,
            messages |->
              << [size |-> decodeBase64Size(SubSeq(s1, 1, q1 - 1)),
                  contentType |-> IF hasType THEN Some(SubSeq(s3, 1, q2 - 1))
                                  ELSE None,
                  delaySecs |-> IF hasDelay
                                THEN Some(parseInt(SubSeq(s5, 1, q3 - 1)))
                                ELSE None] >>,
            rest |-> drop(s6, 1)]

\* The objects of the "messages" array, s starting at its first object.
RECURSIVE fromJson_messages(_)
fromJson_messages(s) ==
  LET m == fromJson_message(s)
  IN  IF ~m.ok THEN ParseFailed
      ELSE IF startsWith(m.rest, << "," >>)
      THEN LET r == fromJson_messages(drop(m.rest, 1))
           IN  IF r.ok
               THEN [ok |-> TRUE, messages |-> m.messages \o r.messages,
                     rest |-> r.rest]
               ELSE ParseFailed
      ELSE IF m.rest = LitEnd
      THEN [ok |-> TRUE, messages |-> m.messages, rest |-> << >>]
      ELSE ParseFailed

\* The body read as {"messages":[ ... ]}.
fromJson(body) ==
  IF ~startsWith(body, LitMessages) THEN ParseFailed
  ELSE IF drop(body, Len(LitMessages)) = LitEnd
  THEN [ok |-> TRUE, messages |-> << >>, rest |-> << >>]
  ELSE fromJson_messages(drop(body, Len(LitMessages)))

\* Bounds of the batches given to sendBatch.
MaxBodySize == 2
MaxBatch == 2

\* The kind of body a tag encodes.
BodyFor(contentType) ==
  IF contentType = Some(TEXT) THEN "string"
  ELSE IF contentType = Some(BYTES) THEN "ArrayBufferView"
  ELSE "object"

\* The delays given for a message: none, and an int with the longest decimal
\* form.
DelayInputs == {None, Some(-2147483647)}

\* Messages that sendBatch accepts, with every size, tag and delay.
SizedMessages ==
  {[body |-> BodyFor(contentType), size |-> size, contentType |-> contentType,
    delaySeconds |-> delaySeconds] :
     size \in 0..MaxBodySize,
     contentType \in {None, Some(TEXT), Some(BYTES), Some(JSON), Some(V8)},
     delaySeconds \in DelayInputs}

SizedBatches == UNION {[1..n -> SizedMessages] : n \in 0..MaxBatch}

\* The state in which nothing of the delivery has started, with a first
\* call of the producer about to be made.
CallInit(calls) ==
  /\ result = EmptyResult
  /\ lastCall \in calls
  /\ flag = TRUE
  /\ handlerKind = "exported"
  /\ pc = "init"
  /\ runProm = "pending"
  /\ handler = "idle"
  /\ completionStatus = "Incomplete"
  /\ pendingTasks = 0
  /\ waitUntilStatus = "OK"
  /\ timedOut = FALSE
  /\ aborted = FALSE
  /\ limitsExceeded = None
  /\ winner = "none"
  /\ local = NoLocal
  /\ reported = << >>
  /\ finishCalls = 0
  /\ drainCalls = 0
  /\ diag = << >>

BatchInit ==
  CallInit({[op |-> "sendBatch", batch |-> batch,
             options |-> [delaySeconds |-> None],
             queuesJsonMessages |-> queuesJsonMessages, phase |-> "start"] :
              batch \in SizedBatches, queuesJsonMessages \in BOOLEAN})

BatchNext == SendBatchCall

\* The messages given to send and sendBatch in the exchange with the broker:
\* every kind of body, with no tag, a tag, a tag in upper case, and a string
\* that is no tag.
BrokerMessages ==
  {[body |-> body, size |-> 1, contentType |-> contentType, delaySeconds |-> None] :
     body \in Bodies,
     contentType \in {None, Some(TEXT), Some(BYTES), Some(<< "J", "S", "O", "N" >>),
                      Some(<< "x", "m", "l" >>)}}

BrokerBatches == UNION {[1..n -> BrokerMessages] : n \in 0..MaxBatch}

\* The responses of the broker.
BrokerResponses ==
  [statusCode : {200, 204, 429}, statusText : {"OK", "Too Many Requests"}]

BrokerInit ==
  CallInit(
    {[op |-> "send", batch |-> << message >>,
      options |-> [delaySeconds |-> None],
      queuesJsonMessages |-> queuesJsonMessages, phase |-> "start"] :
       message \in BrokerMessages, queuesJsonMessages \in BOOLEAN}
    \cup
    {[op |-> "sendBatch", batch |-> batch,
      options |-> [delaySeconds |-> None],
      queuesJsonMessages |-> queuesJsonMessages, phase |-> "start"] :
       batch \in BrokerBatches, queuesJsonMessages \in BOOLEAN})

BrokerNext ==
  \/ SendCall
  \/ SendBatchCall
  \/ BodyWritten
  \/ \E response \in BrokerResponses : Responded(response)
  \/ BodyDiscarded
  \/ Disconnected

BrokerSpec == BrokerInit /\ [][BrokerNext]_vars

BatchSpec == BatchInit /\ [][BatchNext]_vars

(***************************************************************************)
(* Properties of the ledger, checked under LedgerSpec.  lastCall is the    *)
(* last call made, with its arguments and the ledger it was made on.       *)
(***************************************************************************)

\* C1: after any sequence of ack, retry, ackAll and retryAll calls no
\* message id is both in explicitAcks and in retries.
C1_NoIdAckedAndRetried ==
  result.explicitAcks \cap DOMAIN result.retries = {}

\* An ack() of a message already in retries was made (and ignored) while
\* another message is acknowledged.
C1_Witness ==
  /\ lastCall.op = "ack"
  /\ lastCall.id \in DOMAIN lastCall.before.retries
  /\ lastCall.id \in DOMAIN result.retries
  /\ result.explicitAcks # {}

\* C2: ackAll and retryBatch.retry are never both true; ackAll() changes
\* nothing once retryBatch.retry is set and retryAll() changes nothing once
\* ackAll is set.
C2_BatchFlagsExclusive ==
  /\ ~(result.ackAll /\ result.retryBatch.retry)
  /\ (lastCall.op = "ackAll" /\ lastCall.before.retryBatch.retry)
       => result = lastCall.before
  /\ (lastCall.op = "retryAll" /\ lastCall.before.ackAll)
       => result = lastCall.before

\* ackAll() was called after retryAll().
C2_Witness ==
  /\ lastCall.op = "ackAll"
  /\ lastCall.before.retryBatch.retry
  /\ ~result.ackAll

\* C3 as stated: once either whole-batch flag is set, every later ack(id) or
\* retry(id, delay?) leaves the whole ledger unchanged.
C3_Original ==
  (/\ lastCall.op \in {"ack", "retry"}
   /\ (lastCall.before.ackAll \/ lastCall.before.retryBatch.retry))
    => result = lastCall.before

\* C3 amended: once ackAll is set, every later ack(id) or retry(id, delay?)
\* leaves the whole ledger unchanged; once retryBatch.retry is set, every
\* later ack(id) leaves the whole ledger unchanged, while a later
\* retry(id, delay?) is still recorded in retries with the delay of the call
\* unless id is in explicitAcks.
C3_Amended ==
  /\ (lastCall.op \in {"ack", "retry"} /\ lastCall.before.ackAll)
       => result = lastCall.before
  /\ (lastCall.op = "ack" /\ lastCall.before.retryBatch.retry)
       => result = lastCall.before
  /\ (/\ lastCall.op = "retry"
      /\ lastCall.before.retryBatch.retry
      /\ lastCall.id \notin lastCall.before.explicitAcks)
       => /\ lastCall.id \in DOMAIN result.retries
          /\ result.retries[lastCall.id].delaySeconds = DelayOf(lastCall.options)
          /\ result.explicitAcks = lastCall.before.explicitAcks
          /\ result.retryBatch = lastCall.before.retryBatch

\* retryAll(delay) and then ack(2): explicitAcks is still empty.
C3_Witness ==
  /\ lastCall.op = "ack"
  /\ lastCall.id = 2
  /\ lastCall.before.retryBatch = [retry |-> TRUE, delaySeconds |-> Some(MaxDelay)]
  /\ result.explicitAcks = {}

\* C4: per-message decisions are first-writer-wins: an id in explicitAcks
\* stays there and is never added to retries, an id in retries stays there
\* and is never added to explicitAcks, whatever call follows.
C4_FirstWriterWins ==
  \A id \in Ids :
    /\ id \in lastCall.before.explicitAcks
         => (id \in result.explicitAcks /\ id \notin DOMAIN result.retries)
    /\ id \in DOMAIN lastCall.before.retries
         => (id \in DOMAIN result.retries /\ id \notin result.explicitAcks)

\* retry(id) was called on a message already acknowledged by ack(id).
C4_Witness ==
  /\ lastCall.op = "retry"
  /\ lastCall.id \in lastCall.before.explicitAcks
  /\ ~lastCall.before.ackAll
  /\ lastCall.id \in result.explicitAcks

\* C5: batch-level decisions are sticky: once ackAll is true it stays true
\* and retryBatch.retry stays false; once retryBatch.retry is true it stays
\* true and ackAll stays false.
C5_BatchDecisionSticky ==
  /\ lastCall.before.ackAll
       => (result.ackAll /\ ~result.retryBatch.retry)
  /\ lastCall.before.retryBatch.retry
       => (result.retryBatch.retry /\ ~result.ackAll)

\* retryAll() was called after ackAll().
C5_Witness ==
  /\ lastCall.op = "retryAll"
  /\ lastCall.before.ackAll
  /\ result.ackAll

\* C6: after a retry(id, d) that is not rejected (ackAll not set, id not in
\* explicitAcks), retries[id].delaySeconds is the delay of that call, absent
\* when the call gives none, whatever entry id had before.
C6_RetryDelayOverwritten ==
  (/\ lastCall.op = "retry"
   /\ ~lastCall.before.ackAll
   /\ lastCall.id \notin lastCall.before.explicitAcks)
    => /\ lastCall.id \in DOMAIN result.retries
       /\ result.retries[lastCall.id].delaySeconds = DelayOf(lastCall.options)

\* retry(id) without a delay was called on a message whose entry had one.
C6_Witness ==
  /\ lastCall.op = "retry"
  /\ DelayOf(lastCall.options) = None
  /\ lastCall.id \in DOMAIN lastCall.before.retries
  /\ lastCall.before.retries[lastCall.id].delaySeconds = Some(MaxDelay)
  /\ result.retries[lastCall.id].delaySeconds = None

\* C7 as stated: after a retryAll(d) that is not rejected (ackAll not set),
\* retryBatch is {retry: true, delaySeconds: d}, d being absent when the
\* call gives no delay, also when an earlier retryAll had set a delay.
C7_Original ==
  (lastCall.op = "retryAll" /\ ~lastCall.before.ackAll)
    => result.retryBatch =
         [retry |-> TRUE, delaySeconds |-> DelayOf(lastCall.options)]

(***************************************************************************)
(* Properties of the coordinator.                                          *)
(***************************************************************************)

\* C8: every delivery started by run() eventually reports an outcome, one of
\* OK, EXCEPTION and EXCEEDED_CPU, in either waiting mode, and never reports
\* a second one.
C8_ExactlyOneOutcome ==
  /\ [](Len(reported) <= 1 /\ \A i \in DOMAIN reported : reported[i] \in Outcomes)
  /\ [][Len(reported) = 1 => reported' = reported]_vars
  /\ (pc # "init") ~> (Len(reported) = 1)

\* One outcome was reported although completion, limit and abort all occurred.
C8_Witness ==
  /\ Len(reported) = 1
  /\ handler = "resolved"
  /\ timedOut
  /\ aborted

\* C9 as stated: with the flag, the signal that won the race alone
\* determines the reported outcome: completion OK, a rejected handler
\* promise EXCEPTION, the limit EXCEEDED_CPU, an abort EXCEPTION.
C9_Original ==
  (flag /\ pc = "done") =>
    reported = << CASE winner = "completed" -> "OK"
                    [] winner = "rejected"  -> "EXCEPTION"
                    [] winner = "timeout"   -> "EXCEEDED_CPU"
                    [] winner = "abort"     -> "EXCEPTION" >>

\* C9 amended: with the flag, the first signal to resolve determines the
\* outcome (completion OK, rejected handler promise EXCEPTION, limit
\* EXCEEDED_CPU, abort EXCEPTION) and later signals do not change it, except
\* that (a) a status reported by getLimitsExceeded() when the outcome is
\* returned replaces it, and (b) after a service-worker listener completed
\* first, run() awaits finishScheduled() and the outcome is waitUntilStatus()
\* when that completes and EXCEEDED_CPU when it times out or is aborted.
C9_Amended ==
  (flag /\ pc = "done") =>
    IF limitsExceeded # None
    THEN reported = << CHOOSE s \in limitsExceeded : TRUE >>
    ELSE IF winner = "completed" /\ handlerKind = "listener"
    THEN \/ /\ local.finishResult = "COMPLETED"
            /\ pendingTasks = 0
            /\ reported = << waitUntilStatus >>
         \/ /\ local.finishResult \in {"TIMEOUT", "ABORTED"}
            /\ reported = << "EXCEEDED_CPU" >>
    ELSE reported = << CASE winner = "completed" -> "OK"
                         [] winner = "rejected"  -> "EXCEPTION"
                         [] winner = "timeout"   -> "EXCEEDED_CPU"
                         [] winner = "abort"     -> "EXCEPTION" >>

\* The exported handler's promise resolved first; the limit and the abort
\* fired before run() returned, and the outcome is OK.
C9_Witness ==
  /\ flag
  /\ pc = "done"
  /\ handlerKind = "exported"
  /\ winner = "completed"
  /\ timedOut
  /\ aborted
  /\ reported = << "OK" >>

\* C10 as stated: without the flag, a delivery ended by the wall-clock limit
\* reports EXCEEDED_CPU and a delivery ended by an abort reports EXCEPTION.
C10_Original ==
  (~flag /\ pc = "done") =>
    /\ local.finishResult = "TIMEOUT" => reported = << "EXCEEDED_CPU" >>
    /\ local.finishResult = "ABORTED" => reported = << "EXCEPTION" >>

\* C10 amended: without the flag, a delivery ended by the wall-clock limit
\* reports EXCEEDED_CPU and a delivery ended by an abort reports
\* EXCEEDED_CPU too (not EXCEPTION, as it does with the flag).
C10_Amended ==
  (~flag /\ pc = "done") =>
    /\ local.finishResult = "TIMEOUT" => reported = << "EXCEEDED_CPU" >>
    /\ local.finishResult = "ABORTED" => reported = << "EXCEEDED_CPU" >>

\* A delivery without the flag ended by an abort while the handler ran.
C10_Witness ==
  /\ ~flag
  /\ pc = "done"
  /\ local.finishResult = "ABORTED"
  /\ handler = "running"
  /\ reported = << "EXCEEDED_CPU" >>

C12_Original == [][Len(reported) = 1 => result' = result]_vars

\* C13: when the handler has not completed and the time limit elapses with no
\* abort, the outcome is EXCEEDED_CPU; and no step of the coordinator or of
\* its environment (time limit, abort, resuming after the race or after
\* finishScheduled(), logging) changes the ledger, so every entry the handler
\* wrote before is in the ledger that is read afterwards.
C13_TimeoutKeepsLedger ==
  /\ [](pc = "done" /\ handler = "running" /\ timedOut /\ ~aborted
          => reported = << "EXCEEDED_CPU" >>)
  /\ [][CoordNext => result' = result]_vars

\* The time limit ended a delivery whose handler had already written to the
\* ledger: EXCEEDED_CPU is reported and the entries are there.
C13_Witness ==
  /\ pc = "done"
  /\ handler = "running"
  /\ timedOut
  /\ ~aborted
  /\ reported = << "EXCEEDED_CPU" >>
  /\ result.explicitAcks = {1}
  /\ 2 \in DOMAIN result.retries

\* C14: when the handler has returned and its work is done (its promise is
\* resolved, no background task failed) and neither the time limit, nor a
\* limit of the enforcer, nor an abort has occurred, the outcome reported is
\* OK; and once the handler has returned with no background task pending the
\* delivery resolves even if the time limit never elapses.
C14_PromptCompletion ==
  /\ []((/\ pc = "done"
         /\ handler = "resolved"
         /\ waitUntilStatus = "OK"
         /\ ~timedOut
         /\ ~aborted
         /\ limitsExceeded = None)
          => reported = << "OK" >>)
  /\ (handler = "resolved" /\ pendingTasks = 0) ~> (pc = "done")

\* An exported handler returned at once; OK was reported and the time limit
\* has not elapsed.
C14_Witness ==
  /\ pc = "done"
  /\ handlerKind = "exported"
  /\ handler = "resolved"
  /\ pendingTasks = 0
  /\ waitUntilStatus = "OK"
  /\ ~timedOut
  /\ ~aborted
  /\ limitsExceeded = None
  /\ reported = << "OK" >>

\* C15: when there is no code to invoke (an exported handler without
\* queue(), or no exported handler and no listener), no handler is ever
\* invoked, the completion status stays Incomplete and the ledger stays as
\* constructed; once startQueueEvent has failed, the outcome reported is
\* EXCEPTION (without the flag: unless finishScheduled() had the time limit
\* or an abort to report).
C15_NoHandlerRegistered ==
  handlerKind \in {"noQueueFn", "noListener"} =>
    /\ handler = "idle"
    /\ completionStatus = "Incomplete"
    /\ result = EmptyResult
    /\ (pc = "done" /\ runProm = "rejected" /\ (flag \/ (~timedOut /\ ~aborted)))
         => reported = << "EXCEPTION" >>

\* A delivery to a worker with no exported handler and no listener has been
\* reported as EXCEPTION.
C15_Witness ==
  /\ handlerKind = "noListener"
  /\ pc = "done"
  /\ runProm = "rejected"
  /\ handler = "idle"
  /\ completionStatus = "Incomplete"
  /\ result = EmptyResult
  /\ reported = << "EXCEPTION" >>

\* C16 (as stated): the two ways of waiting are never mixed in one delivery:
\* with the flag finishScheduled(), which waits for the whole waitUntil set,
\* is never called; without the flag the race is never used and
\* finishScheduled() alone decides.
C16_Original ==
  /\ flag => finishCalls = 0
  /\ ~flag => /\ winner = "none"
              /\ drainCalls = 0
              /\ pc \in {"finish", "abortWait", "done"} => finishCalls = 1

\* C16 (amended): with the flag an exported handler's delivery is decided by
\* the race alone and finishScheduled() is never called; a service-worker
\* listener's delivery, once its dispatch has won the race, does call
\* finishScheduled() (once) and then completes only when no background task
\* is pending, unless the time limit or an abort ends the wait.  Without the
\* flag the race is never used and finishScheduled() alone decides.
C16_Amended ==
  /\ (flag /\ finishCalls > 0)
       => handlerKind = "listener" /\ winner = "completed" /\ finishCalls = 1
  /\ (flag /\ handlerKind = "listener" /\ winner = "completed" /\ pc = "done")
       => /\ finishCalls = 1
          /\ drainCalls = 0
          /\ (~timedOut /\ ~aborted) => pendingTasks = 0
  /\ ~flag => /\ winner = "none"
              /\ drainCalls = 0
              /\ pc \in {"finish", "abortWait", "done"} => finishCalls = 1

\* With the flag, a listener's delivery has gone through finishScheduled().
C16_Witness ==
  /\ flag
  /\ handlerKind = "listener"
  /\ winner = "completed"
  /\ pc = "done"
  /\ finishCalls = 1
  /\ local.finishResult = "COMPLETED"
  /\ reported = << "OK" >>

\* C17: without the flag, a delivery that finishScheduled() reported as
\* completed has no background task left: startQueueEvent has returned, the
\* handler's promise is settled and no waitUntil task is pending, and the
\* outcome is waitUntilStatus(); a delivery reported while any of them is
\* unfinished was ended by the time limit or by an abort and is reported as
\* EXCEEDED_CPU.
C17_LegacyWaitsForAll ==
  (~flag /\ pc = "done") =>
    /\ local.finishResult = "COMPLETED"
         => /\ runProm # "pending"
            /\ handler # "running"
            /\ pendingTasks = 0
            /\ reported = << waitUntilStatus >>
    /\ local.finishResult # "COMPLETED"
         => /\ reported = << "EXCEEDED_CPU" >>
            /\ local.finishResult = "TIMEOUT" => timedOut
            /\ local.finishResult = "ABORTED" => aborted
    /\ (runProm = "pending" \/ handler = "running" \/ pendingTasks > 0)
         => local.finishResult \in {"TIMEOUT", "ABORTED"}

\* Without the flag a delivery completed after the handler's promise resolved
\* and a waitUntil task had failed.
C17_Witness ==
  /\ ~flag
  /\ pc = "done"
  /\ local.finishResult = "COMPLETED"
  /\ handlerKind = "exported"
  /\ handler = "resolved"
  /\ pendingTasks = 0
  /\ waitUntilStatus = "EXCEPTION"
  /\ reported = << "EXCEPTION" >>

\* C18 (as stated): for a listener, once the dispatch has returned and the
\* delivery is marked completed, the coordinator waits on no further work:
\* it is never inside finishScheduled() with nothing to return.
C18_Original ==
  ~(/\ handlerKind = "listener"
    /\ completionStatus = "CompletedSuccessfully"
    /\ pc \in {"swFinish", "finish"}
    /\ FinishScheduledResults = {})

\* C18 (amended): for a listener, the completion status is
\* CompletedSuccessfully exactly from the moment the synchronous dispatch has
\* returned, whatever background work the listener registered; the outcome
\* of such a delivery is nevertheless reported only after finishScheduled(),
\* which completes only when no waitUntil task is pending.
C18_Amended ==
  handlerKind = "listener" =>
    /\ completionStatus =
         (IF handler = "resolved" THEN "CompletedSuccessfully" ELSE "Incomplete")
    /\ (pc = "done" /\ handler = "resolved" /\ (flag => winner = "completed"))
         => /\ finishCalls = 1
            /\ drainCalls = 0
            /\ local.finishResult = "COMPLETED" => pendingTasks = 0
            /\ local.finishResult # "COMPLETED" => timedOut \/ aborted

\* A listener's delivery is marked completed while a task it registered is
\* pending and the coordinator is inside finishScheduled().
C18_Witness ==
  /\ handlerKind = "listener"
  /\ flag
  /\ completionStatus = "CompletedSuccessfully"
  /\ pc = "swFinish"
  /\ pendingTasks = 1
  /\ reported = << >>

(***************************************************************************)
(* Properties of sendRpc, checked under RpcSpec.  lastCall.resp is the     *)
(* response applied last.                                                  *)
(***************************************************************************)

\* C19 (as stated): after a response of sendRpc has been applied, the
\* caller's ledger equals the ledger of the response in every field,
\* whatever it held before.
C19_Original ==
  lastCall.op = "sendRpc" => result = WireLedger(lastCall.resp)

(***************************************************************************)
(* Properties of the producer, checked under ProducerSpec.  lastCall is   *)
(* the last call of send or sendBatch, with what it returned or threw.     *)
(***************************************************************************)
\* The canonical tag a recognized spelling stands for.
CanonicalTag(str) ==
  CHOOSE tag \in {TEXT, BYTES, JSON, V8} : str \in Spellings(tag)

\* The body is of a kind the tag can encode.
BodyFits(body, tag) ==
  /\ body # "undefined"
  /\ tag = TEXT => body = "string"
  /\ tag = BYTES => body = "ArrayBufferView"

\* C20 (as stated): on send() and on sendBatch() alike, a message whose
\* contentType spells one of the four tags in any letter case (and whose body
\* the tag can encode) is accepted and sent under the canonical tag; any
\* other contentType makes the call throw the unsupported-content-type error.
C20_Original ==
  (lastCall.op \in {"send", "sendBatch"} /\ Len(lastCall.batch) = 1) =>
    LET message == lastCall.batch[1]
        str == CHOOSE t \in message.contentType : TRUE
        sent == IF lastCall.op = "send" THEN lastCall.ret.value
                ELSE lastCall.ret.value[1]
    IN  (message.contentType # None /\ message.body # "undefined") =>
          /\ (str \in RecognizedSpellings /\ BodyFits(message.body, CanonicalTag(str)))
               => /\ ~lastCall.ret.threw
                  /\ sent.contentType = Some(CanonicalTag(str))
          /\ str \notin RecognizedSpellings
               => /\ lastCall.ret.threw
                  /\ lastCall.ret.error = "Unsupported queue message content type"

(***************************************************************************)
(* Further properties of the ledger, checked under LedgerSpec.             *)
(***************************************************************************)
\* C24: each ledger operation is idempotent: a call that repeats the call
\* made just before it (same operation, same id, same options) leaves the
\* ledger as that call left it.
C24_Idempotent ==
  [][(/\ lastCall.op # "none"
      /\ lastCall'.op = lastCall.op
      /\ lastCall'.id = lastCall.id
      /\ lastCall'.options = lastCall.options)
       => result' = result]_vars

\* retry(id, d) was repeated on a ledger where the first call had recorded
\* the entry.
C24_Witness ==
  /\ lastCall.op = "retry"
  /\ lastCall.before = result
  /\ lastCall.id \in DOMAIN result.retries
  /\ DelayOf(lastCall.options) = Some(MaxDelay)
  /\ result.retries[lastCall.id].delaySeconds = Some(MaxDelay)

\* C27: ackAll() and retryAll(d) never modify the collections of single
\* messages: after either call explicitAcks and retries are what they were
\* before it.
C27_BatchCallsKeepCollections ==
  lastCall.op \in {"ackAll", "retryAll"} =>
    /\ result.explicitAcks = lastCall.before.explicitAcks
    /\ result.retries = lastCall.before.retries

\* retry(m1) then ackAll(): ackAll is set and m1 is still in retries.
C27_Witness ==
  /\ lastCall.op = "ackAll"
  /\ ~lastCall.before.ackAll
  /\ result.ackAll
  /\ 1 \in DOMAIN result.retries

(***************************************************************************)
(* Further properties of the coordinator, checked under CoordSpec.         *)
(***************************************************************************)
\* C28: on every path of run() exactly one of finishScheduled() and drain()
\* is invoked: never both at any time, and one of them by the time run() has
\* returned; without the flag and for a service-worker listener whose
\* dispatch completed it is finishScheduled(), otherwise drain().
C28_FinishOrDrainOnce ==
  /\ finishCalls + drainCalls <= 1
  /\ pc = "done" =>
       /\ finishCalls + drainCalls = 1
       /\ finishCalls = 1 <=>
            (~flag \/ (handlerKind = "listener" /\ winner = "completed"))

\* With the flag and no handler to invoke, run() returned after drain()
\* alone.
C28_Witness ==
  /\ flag
  /\ handlerKind = "noListener"
  /\ pc = "done"
  /\ reported = << "EXCEPTION" >>
  /\ drainCalls = 1
  /\ finishCalls = 0

\* C25 (as stated): whenever run() has returned because of the time limit or
\* an abort and not because the delivery completed, with or without the
\* flag, one diagnostic record has been logged, with the completion status
\* and the pending background tasks.
C25_Original ==
  (/\ pc = "done"
   /\ \/ local.finishResult \in {"TIMEOUT", "ABORTED"}
      \/ flag /\ winner \in {"timeout", "abort"})
    => /\ Len(diag) = 1
       /\ diag[1].status \in {"Empty", "Incomplete", "CompletedSuccessfully",
                              "CompletedWithError"}
       /\ diag[1].tasks \in 0..MaxTasks

(***************************************************************************)
(* Properties of the request sendBatch builds, checked under BatchSpec.    *)
(***************************************************************************)
\* C26: for every batch of N >= 1 messages the body built, with its
\* terminating NUL, is no longer than the size estimated for it,
\* ceil(totalBytes / 3) * 4 + 64 * N + 32.
C26_EstimateCoversBody ==
  (lastCall.phase = "writing" /\ Len(lastCall.batch) >= 1) =>
    lastCall.ret.value.bodyBuilderSize <= lastCall.ret.value.estimatedSize

\* Two messages of one byte each, sent as bytes with the longest delay: each
\* is padded to four base64 characters, one group more than the estimate
\* counts for the two bytes together, and the body of 141 characters is
\* within the estimate of 164.
C26_Witness ==
  /\ lastCall.phase = "writing"
  /\ Len(lastCall.batch) = 2
  /\ \A i \in 1..2 :
       /\ lastCall.batch[i].size = 1
       /\ lastCall.batch[i].contentType = Some(BYTES)
       /\ lastCall.batch[i].delaySeconds = Some(-2147483647)
  /\ lastCall.ret.value.bodyBuilderSize = 141
  /\ lastCall.ret.value.estimatedSize = 164

\* The sum and the maximum of the sizes of the serialized bodies of a batch,
\* from its messages.
RECURSIVE SumOfSizes(_)
SumOfSizes(batch) ==
  IF batch = << >> THEN 0 ELSE Head(batch).size + SumOfSizes(Tail(batch))

MaxOfSizes(batch) ==
  CHOOSE m \in {batch[i].size : i \in DOMAIN batch} :
    \A i \in DOMAIN batch : batch[i].size <= m

\* C21: a sendBatch of N >= 1 messages writes a body that reads back as
\* exactly N message objects in the order of the batch (each with the size,
\* the tag and the delay of its message), and the headers report N as the
\* count, the sum of the serialized sizes as the bytes and their maximum as
\* the largest message.
C21_BodyAndMetadata ==
  (lastCall.phase = "writing" /\ Len(lastCall.batch) >= 1) =>
    LET batch == lastCall.batch
        req == lastCall.ret.value
        parsed == fromJson(req.body)
    IN  /\ parsed.ok
        /\ Len(parsed.messages) = Len(batch)
        /\ \A i \in DOMAIN batch :
             /\ parsed.messages[i].size = batch[i].size
             /\ parsed.messages[i].delaySecs = batch[i].delaySeconds
             /\ batch[i].contentType # None =>
                  parsed.messages[i].contentType = batch[i].contentType
        /\ req.headers.count = kj_str(Len(batch))
        /\ req.headers.bytes = kj_str(SumOfSizes(batch))
        /\ req.headers.largest = kj_str(MaxOfSizes(batch))

\* A batch of two messages that differ in size, tag and delay: the body
\* holds them in that order and the headers say 2, 3 and 2.
C21_Witness ==
  /\ lastCall.phase = "writing"
  /\ Len(lastCall.batch) = 2
  /\ lastCall.batch[1].size = 1
  /\ lastCall.batch[2].size = 2
  /\ lastCall.batch[1].contentType = Some(TEXT)
  /\ lastCall.batch[2].contentType = Some(BYTES)
  /\ lastCall.batch[1].delaySeconds = None
  /\ lastCall.batch[2].delaySeconds # None
  /\ fromJson(lastCall.ret.value.body).messages[1].size = 1
  /\ fromJson(lastCall.ret.value.body).messages[2].size = 2
  /\ lastCall.ret.value.headers.count = << "2" >>
  /\ lastCall.ret.value.headers.bytes = << "3" >>
  /\ lastCall.ret.value.headers.largest = << "2" >>

\* A message that send and sendBatch must refuse: its body is undefined, its
\* content type is not recognized, or its body is not of the type its
\* content type declares.
InvalidMessage(message) ==
  \/ message.body = "undefined"
  \/ /\ message.contentType # None
     /\ LET tag == toLower(CHOOSE t \in message.contentType : TRUE)
        IN  \/ tag \notin {TEXT, BYTES, JSON, V8}
            \/ tag = TEXT /\ message.body # "string"
            \/ tag = BYTES /\ message.body # "ArrayBufferView"

\* C22: a send or sendBatch given an undefined body, an unrecognized content
\* type, a body not of the declared text or bytes type, or an empty batch
\* throws from the call itself and makes no request to the broker; one such
\* message in a batch fails the whole call, nothing is sent for the others;
\* and whenever the call throws, no request was made.
C22_ErrorsBeforeRequest ==
  lastCall.phase # "start" =>
    /\ (\/ Len(lastCall.batch) = 0
        \/ \E i \in DOMAIN lastCall.batch : InvalidMessage(lastCall.batch[i]))
         => (/\ lastCall.phase = "threw"
             /\ lastCall.ret.threw
             /\ lastCall.requests = << >>
             /\ ~lastCall.written
             /\ lastCall.response = None)
    /\ lastCall.ret.threw =>
         (lastCall.phase = "threw" /\ lastCall.requests = << >>)

\* A batch of a valid text message followed by a message whose body is
\* undefined: sendBatch threw and made no request.
C22_Witness ==
  /\ lastCall.op = "sendBatch"
  /\ lastCall.phase = "threw"
  /\ Len(lastCall.batch) = 2
  /\ ~InvalidMessage(lastCall.batch[1])
  /\ lastCall.batch[1].contentType = Some(TEXT)
  /\ lastCall.batch[2].body = "undefined"
  /\ lastCall.batch[2].contentType = None
  /\ lastCall.ret = Throw("Message body cannot be undefined")
  /\ lastCall.requests = << >>

\* C23: the promise of a send or sendBatch is fulfilled exactly when the
\* request body was written, the broker answered with status 200 and the
\* response body was read to its end; an answer with any other status
\* rejects it with "Queue send failed: " or "Queue sendBatch failed: "
\* followed by the status text, the response body not read.
C23_SuccessIff200 ==
  lastCall.phase \notin {"start", "threw"} =>
    /\ lastCall.phase = "fulfilled" <=>
         (/\ lastCall.written
          /\ lastCall.response # None
          /\ \A response \in lastCall.response : response.statusCode = 200
          /\ lastCall.bodyRead)
    /\ \A response \in lastCall.response :
         response.statusCode # 200 =>
           /\ lastCall.phase = "rejected"
           /\ lastCall.error =
                Some(<< IF lastCall.op = "send" THEN "Queue send failed: "
                        ELSE "Queue sendBatch failed: ",
                       response.statusText >>)
           /\ ~lastCall.bodyRead

\* The broker answers a sendBatch with 204 and the text "OK": the promise is
\* rejected with "Queue sendBatch failed: OK".
C23_Witness ==
  /\ lastCall.op = "sendBatch"
  /\ lastCall.phase = "rejected"
  /\ lastCall.written
  /\ lastCall.response = Some([statusCode |-> 204, statusText |-> "OK"])
  /\ lastCall.error = Some(<< "Queue sendBatch failed: ", "OK" >>)

=============================================================================
